---- MODULE Spec2Model ----
(***************************************************************************)
(* A model of process_excel_data (src/app.py), the function that reads the *)
(* five subject sheets of an uploaded workbook and builds, per student and *)
(* per subject, the list of missed-question records.                       *)
(*                                                                         *)
(* Text is a sequence of one-character strings, so that str.strip() is     *)
(* computed and not assumed.  The identifiers of the source that are not   *)
(* ASCII are written in pinyin:                                            *)
(*   GuoWen, YingWen, ShuXue, SheHui, ZiRan : the five required sheets     *)
(*   TiHao, LingYu, ZhiShiDian : the record keys (question id, category,   *)
(*                               knowledge point)                          *)
(*   QiTa : the "uncategorized" category sentinel                          *)
(***************************************************************************)
EXTENDS Naturals, Sequences, FiniteSets, TLC

VARIABLES
    uploaded_file,      \* the workbook: [valid, sheet_names, sheets]
    pc,                 \* position in process_excel_data
    data_map,           \* sheet name -> grid as read by pd.read_excel
    student_list,       \* the roster
    si,                 \* index of the current student in student_list
    sj,                 \* index of the current subject in required_sheets
    student_errors,     \* subject -> records, of the current student
    all_students_data,  \* student -> student_errors
    result,             \* the returned pair (data, error message)
    printed             \* the diagnostics print() wrote

vars == <<uploaded_file, pc, data_map, student_list, si, sj, student_errors,
          all_students_data, result, printed>>

----------------------------------------------------------------------------
(* Bounds of the input workbooks.                                          *)

MaxBodyRows == 2
MaxAnswerCols == 2

----------------------------------------------------------------------------
(* Cells and text.                                                         *)

\* pandas' missing value: what read_excel yields for an empty cell.
NaN == <<"NaN">>

\* The characters str.strip() removes.
Whitespace == {" ", "\t"}

\* The texts read_excel turns into NaN by default (among them the empty one).
na_values == {<<>>, <<"N", "A">>}

ReadCell(raw) == IF raw \in na_values THEN NaN ELSE raw

ReadExcel(sheet) == [r \in 1..Len(sheet) |-> [c \in 1..Len(sheet[r]) |-> ReadCell(sheet[r][c])]]

notna(cell) == cell # NaN

\* str(x): a missing value prints as "nan", text is itself.
Str(cell) == IF cell = NaN THEN <<"n", "a", "n">> ELSE cell

RECURSIVE LStrip(_)
LStrip(s) == IF s # <<>> /\ Head(s) \in Whitespace THEN LStrip(Tail(s)) ELSE s

RECURSIVE RStrip(_)
RStrip(s) ==
    IF s # <<>> /\ s[Len(s)] \in Whitespace THEN RStrip(SubSeq(s, 1, Len(s) - 1)) ELSE s

Strip(s) == RStrip(LStrip(s))

----------------------------------------------------------------------------
(* The format's fixed offsets (0-based, as in the source) and names.       *)

required_sheets == <<"GuoWen", "YingWen", "ShuXue", "SheHui", "ZiRan">>

\* The sheet the roster is taken from.
RosterSheet == "GuoWen"

BodyStart == 5
NameCol == 1
AnswerCol == 2
QNumRow == 0
CategoryRow == 1
KPointRow == 2

QiTa == <<"Qi", "Ta">>

Range(s) == {s[i] : i \in 1..Len(s)}

Min2(a, b) == IF a < b THEN a ELSE b

\* seq[k:] of Python, k counted from 0.
SliceFrom(s, k) == SubSeq(s, k + 1, Len(s))

NCols(df) == IF Len(df) = 0 THEN 0 ELSE Len(df[1])

EmptyMap == [x \in {} |-> <<>>]

----------------------------------------------------------------------------
(* The workbooks checked.  A sheet is a rectangular grid of raw cells (an  *)
(* empty cell is the empty text): three header rows, two spacer rows, then *)
(* one row per student; a label column, the name column, and one column    *)
(* per question.                                                           *)

Letters == <<"A", "B", "C", "D">>
Digits == <<"1", "2", "3", "4">>

Label == <<"#">>

QId(j) == <<Digits[j]>>
KPoint(j) == <<"k", Digits[j]>>
\* The categories are not in sorted order along the columns.
BaseCat(j) == IF j = 1 THEN <<"h">> ELSE <<"g">>
BaseName(i) == <<Letters[i]>>
\* Row i misses its first i-1 questions and leaves the rest unattempted.
BaseAns(i, j) == IF j < i THEN <<"x">> ELSE <<"-">>

MkSheet(names, answers, cats) ==
    LET C == Len(cats)
        Hdr(cells) == <<Label, Label>> \o cells
        Spacer == [c \in 1..(C + 2) |-> <<>>]
    IN  << Hdr([j \in 1..C |-> QId(j)]),
           Hdr(cats),
           Hdr([j \in 1..C |-> KPoint(j)]),
           Spacer,
           Spacer >>
        \o [i \in 1..Len(names) |-> <<QId(i), names[i]>> \o answers[i]]

BaseNames == [i \in 1..MaxBodyRows |-> BaseName(i)]
BaseAnswers == [i \in 1..MaxBodyRows |-> [j \in 1..MaxAnswerCols |-> BaseAns(i, j)]]
BaseCats == [j \in 1..MaxAnswerCols |-> BaseCat(j)]

BaseSheet == MkSheet(BaseNames, BaseAnswers, BaseCats)

\* The first nr rows and nc columns of a sheet.
Truncate(sheet, nr, nc) ==
    [r \in 1..Min2(nr, Len(sheet)) |-> SubSeq(sheet[r], 1, Min2(nc, Len(sheet[r])))]

FullRows == BodyStart + MaxBodyRows
FullCols == AnswerCol + MaxAnswerCols

\* Sheets of every shape the code treats differently.
EmptySheet == <<>>
TwoRowSheet == Truncate(BaseSheet, 2, FullCols)
OneColSheet == Truncate(BaseSheet, FullRows, 1)
HeaderOnlySheet == Truncate(BaseSheet, BodyStart, FullCols)
NamesOnlySheet == Truncate(BaseSheet, FullRows, AnswerCol)

RosterShapes ==
    {EmptySheet, TwoRowSheet, OneColSheet, HeaderOnlySheet, NamesOnlySheet, BaseSheet}
OtherShapes == {TwoRowSheet, OneColSheet, HeaderOnlySheet, NamesOnlySheet, BaseSheet}

RosterNameCells == {<<>>, <<" ">>, <<"A">>, <<"A", " ">>, <<"B">>}
OtherNameCells == {<<"A">>, <<"A", " ">>, <<"a">>, <<"B">>}
AnswerCells == {<<>>, <<" ">>, <<"-">>, <<" ", "-", " ">>, <<"-", "-">>, <<"N", "A">>, <<"x">>}
CategoryCells == {<<>>, <<" ">>, <<"g">>, <<" ", "g", " ">>, <<"N", "A">>}

ExtraSheet == "BeiZhu"
AllSheetNames == Range(required_sheets) \cup {ExtraSheet}

Book(sheets) ==
    [valid |-> TRUE, sheet_names |-> DOMAIN sheets, sheets |-> sheets]

BaseSheets == [n \in Range(required_sheets) |-> BaseSheet]

\* Any set of sheet names, readable file or not.
SheetNameBooks ==
    {[valid |-> v, sheet_names |-> S, sheets |-> [n \in S |-> BaseSheet]] :
        v \in BOOLEAN, S \in SUBSET AllSheetNames}

\* Every sheet of any shape.
ShapeBooks ==
    {Book([n \in Range(required_sheets) |-> IF n = RosterSheet THEN g ELSE f[n]]) :
        g \in RosterShapes, f \in [Range(required_sheets) \ {RosterSheet} -> OtherShapes]}

\* Any names in the roster sheet and in one other sheet.
NameBooks ==
    {Book([BaseSheets EXCEPT
              ![RosterSheet] = MkSheet(rn, BaseAnswers, BaseCats),
              !["YingWen"] = MkSheet(on, BaseAnswers, BaseCats)]) :
        rn \in [1..MaxBodyRows -> RosterNameCells],
        on \in [1..MaxBodyRows -> OtherNameCells]}

\* Any answers in the first student's row of the roster sheet.
AnswerBooks ==
    {Book([BaseSheets EXCEPT
              ![RosterSheet] = MkSheet(BaseNames, [BaseAnswers EXCEPT ![1] = a], BaseCats)]) :
        a \in [1..MaxAnswerCols -> AnswerCells]}

AllMissed == [i \in 1..MaxBodyRows |-> [j \in 1..MaxAnswerCols |-> <<"x">>]]

\* Any category headers in the roster sheet, every question missed.
CategoryBooks ==
    {Book([BaseSheets EXCEPT ![RosterSheet] = MkSheet(BaseNames, AllMissed, c)]) :
        c \in [1..MaxAnswerCols -> CategoryCells]}

Books == SheetNameBooks \cup ShapeBooks \cup NameBooks \cup AnswerBooks \cup CategoryBooks

----------------------------------------------------------------------------
(* The steps of process_excel_data.                                        *)

NoError == [kind |-> "None", sheets |-> <<>>]

NotReturned == [data_none |-> TRUE, data |-> EmptyMap, error |-> NoError]

ReturnError(kind, sheets) ==
    [data_none |-> TRUE, data |-> EmptyMap, error |-> [kind |-> kind, sheets |-> sheets]]

ReturnData(data) == [data_none |-> FALSE, data |-> data, error |-> NoError]

\* xls = pd.ExcelFile(uploaded_file), or the format error.
OpenFile ==
    /\ pc = "open"
    /\ IF uploaded_file.valid
         THEN /\ pc' = "check"
              /\ result' = result
         ELSE /\ pc' = "done"
              /\ result' = ReturnError("format", <<>>)
    /\ UNCHANGED <<uploaded_file, data_map, student_list, si, sj, student_errors,
                   all_students_data, printed>>

missing_sheets_swapped(sheet_names) ==
    SelectSeq(required_sheets, LAMBDA sheet : sheet \in sheet_names)

missing_sheets(sheet_names) ==
    SelectSeq(required_sheets, LAMBDA sheet : sheet \notin sheet_names)

CheckSheets ==
    /\ pc = "check"
    /\ LET missing == missing_sheets(uploaded_file.sheet_names)
       IN  IF missing # <<>>
             THEN /\ pc' = "done"
                  /\ result' = ReturnError("missing", missing)
             ELSE /\ pc' = "read"
                  /\ result' = result
    /\ UNCHANGED <<uploaded_file, data_map, student_list, si, sj, student_errors,
                   all_students_data, printed>>

ReadSheets ==
    /\ pc = "read"
    /\ data_map' = [sheet \in Range(required_sheets) |->
                        ReadExcel(uploaded_file.sheets[sheet])]
    /\ pc' = "roster"
    /\ UNCHANGED <<uploaded_file, student_list, si, sj, student_errors,
                   all_students_data, result, printed>>

\* Series.dropna()
DropNa(s) == SelectSeq(s, notna)

\* Series.unique(): the distinct values in order of first appearance.
RECURSIVE Unique(_)
Unique(s) ==
    IF s = <<>> THEN <<>>
    ELSE LET init == SubSeq(s, 1, Len(s) - 1)
             last == s[Len(s)]
         IN  IF last \in Range(init) THEN Unique(init) ELSE Append(Unique(init), last)

\* df.iloc[5:, 1]: the name column of the body rows (the column must exist).
BodyNames(df) == [i \in 1..(Len(SliceFrom(df, BodyStart))) |->
                      SliceFrom(df, BodyStart)[i][NameCol + 1]]

first_df_other == data_map["YingWen"]

first_df == data_map[RosterSheet]

BuildRoster ==
    /\ pc = "roster"
    /\ IF NCols(first_df) <= NameCol
         THEN \* IndexError: the positional column is out of bounds
              /\ pc' = "done"
              /\ result' = ReturnError("roster", <<>>)
              /\ UNCHANGED <<student_list, si, sj, student_errors>>
         ELSE /\ student_list' = Unique(DropNa(BodyNames(first_df)))
              /\ pc' = "loop"
              /\ si' = 1
              /\ sj' = 1
              /\ student_errors' = EmptyMap
              /\ result' = result
    /\ UNCHANGED <<uploaded_file, data_map, all_students_data, printed>>

IsMissedNoStrip(ans) ==
    LET ans_str == Str(ans)
    IN  ans_str # <<"-">> /\ notna(ans) /\ ans_str # <<>>

\* The test of line 148 on one answer cell.
IsMissed(ans) ==
    LET ans_str == Strip(Str(ans))
    IN  ans_str # <<"-">> /\ notna(ans) /\ ans_str # <<>>

Category(cat) == IF notna(cat) THEN Strip(Str(cat)) ELSE QiTa

ErrorRecord(qn, cat, kp) == [TiHao |-> qn, LingYu |-> Category(cat), ZhiShiDian |-> kp]

AddErrorFront(errors, rec) == <<rec>> \o errors

\* errors.append(...)
AddError(errors, rec) == Append(errors, rec)

\* The loop over zip(answers, categories, k_points, q_nums), from position i on.
RECURSIVE BuildErrors(_, _, _, _, _, _)
BuildErrors(answers, categories, k_points, q_nums, i, errors) ==
    LET n == Min2(Min2(Len(answers), Len(categories)), Min2(Len(k_points), Len(q_nums)))
    IN  IF i > n THEN errors
        ELSE BuildErrors(answers, categories, k_points, q_nums, i + 1,
                 IF IsMissed(answers[i])
                   THEN AddError(errors, ErrorRecord(q_nums[i], categories[i], k_points[i]))
                   ELSE errors)

LastRow(rows) == rows[Len(rows)]

\* target_row.iloc[0]
TargetRow(rows) == rows[1]

\* The body of the try block for one subject's grid and one student:
\* "raised" (an exception), "absent" (continue) or "ok" with the errors.
TryExtract(df, student) ==
    IF Len(df) <= KPointRow
      THEN [kind |-> "raised", errors |-> <<>>]     \* df.iloc[r, 2:] of a missing row
    ELSE
      LET q_nums == SliceFrom(df[QNumRow + 1], AnswerCol)
          categories == SliceFrom(df[CategoryRow + 1], AnswerCol)
          k_points == SliceFrom(df[KPointRow + 1], AnswerCol)
          body == SliceFrom(df, BodyStart)
          student_df_temp == [i \in 1..Len(body) |-> SliceFrom(body[i], NameCol)]
          ncolumns == IF NCols(df) > NameCol THEN NCols(df) - NameCol ELSE 0
          \* ["Name"] + [i for i in range(len(columns) - 1)]
          nlabels == 1 + (IF ncolumns > 1 THEN ncolumns - 1 ELSE 0)
      IN  IF nlabels # ncolumns
            THEN [kind |-> "raised", errors |-> <<>>]   \* length mismatch of the labels
          ELSE
            LET target_row == SelectSeq(student_df_temp, LAMBDA row : row[1] = student)
            IN  IF target_row = <<>>
                  THEN [kind |-> "absent", errors |-> <<>>]
                  ELSE [kind |-> "ok",
                        errors |-> BuildErrors(SliceFrom(TargetRow(target_row), 1),
                                               categories, k_points, q_nums, 1, <<>>)]

StoreOutcomeResetOnRaise(errs, subject, outcome) ==
    IF outcome.kind = "ok" THEN (subject :> outcome.errors) @@ errs
    ELSE IF outcome.kind = "raised" THEN EmptyMap
    ELSE errs

StoreOutcomeNoContinue(errs, subject, outcome) ==
    IF outcome.kind = "raised" THEN errs
    ELSE (subject :> outcome.errors) @@ errs

\* What one pass of the inner loop leaves in student_errors.
StoreOutcome(errs, subject, outcome) ==
    IF outcome.kind = "ok" THEN (subject :> outcome.errors) @@ errs
    ELSE errs

ProcessSubject ==
    /\ pc = "loop"
    /\ si <= Len(student_list)
    /\ sj <= Len(required_sheets)
    /\ LET student == student_list[si]
           subject == required_sheets[sj]
           outcome == TryExtract(data_map[subject], student)
       IN  /\ student_errors' = StoreOutcome(student_errors, subject, outcome)
           /\ printed' = IF outcome.kind = "raised"
                           THEN Append(printed, <<student, subject>>)
                           ELSE printed
    /\ sj' = sj + 1
    /\ UNCHANGED <<uploaded_file, pc, data_map, student_list, si, all_students_data, result>>

PutStudentOnly(data, student, errs) == (student :> errs)

\* all_students_data[student] = student_errors
PutStudent(data, student, errs) == (student :> errs) @@ data

StoreStudent ==
    /\ pc = "loop"
    /\ si <= Len(student_list)
    /\ sj > Len(required_sheets)
    /\ all_students_data' = PutStudent(all_students_data, student_list[si], student_errors)
    /\ si' = si + 1
    /\ sj' = 1
    /\ student_errors' = EmptyMap
    /\ UNCHANGED <<uploaded_file, pc, data_map, student_list, result, printed>>

Return ==
    /\ pc = "loop"
    /\ si > Len(student_list)
    /\ result' = ReturnData(all_students_data)
    /\ pc' = "done"
    /\ UNCHANGED <<uploaded_file, data_map, student_list, si, sj, student_errors,
                   all_students_data, printed>>

Init ==
    /\ uploaded_file \in Books
    /\ pc = "open"
    /\ data_map = EmptyMap
    /\ student_list = <<>>
    /\ si = 1
    /\ sj = 1
    /\ student_errors = EmptyMap
    /\ all_students_data = EmptyMap
    /\ result = NotReturned
    /\ printed = <<>>

Next ==
    \/ OpenFile
    \/ CheckSheets
    \/ ReadSheets
    \/ BuildRoster
    \/ ProcessSubject
    \/ StoreStudent
    \/ Return

Spec == Init /\ [][Next]_vars

----------------------------------------------------------------------------
(* What the results are measured against: the grids as read, described     *)
(* cell by cell and without the operators the steps above are built from.  *)

Succeeded == pc = "done" /\ ~result.data_none

Data == result.data

Subjects == Range(required_sheets)

\* Only whitespace (the empty text included).
Blank(text) == \A i \in 1..Len(text) : text[i] \in Whitespace

\* One "-" and around it only whitespace.
NotAttempted(text) ==
    \E i \in 1..Len(text) :
        /\ text[i] = "-"
        /\ \A j \in 1..Len(text) : j # i => text[j] \in Whitespace

\* The missed-question predicate on a cell as read.
MissedMarker(cell) == cell # NaN /\ ~Blank(cell) /\ ~NotAttempted(cell)

\* A grid on which the (student, subject) pair raises.
Fails(df) == Len(df) < 3 \/ NCols(df) < 2

\* The body rows (1-based) whose name cell equals the name.
NameRows(df, name) ==
    {r \in 6..Len(df) : Len(df[r]) >= 2 /\ df[r][2] = name}

FirstNameRow(df, name) ==
    CHOOSE r \in NameRows(df, name) : \A q \in NameRows(df, name) : r <= q

\* The answer columns (1-based) of a grid.
AnswerColumns(df) == 3..NCols(df)

\* The question ids of the columns a body row misses.
MissedIds(df, r) == {df[1][c] : c \in {k \in AnswerColumns(df) : MissedMarker(df[r][k])}}

RecordIds(records) == {records[k].TiHao : k \in 1..Len(records)}

\* The names of the roster sheet's body band that are not missing.
RosterNames ==
    LET df == data_map["GuoWen"]
    IN  {df[r][2] : r \in 6..Len(df)} \ {NaN}

\* The pair's entry is what its own grid alone determines.
PairAsExpected(name, subject) ==
    LET df == data_map[subject]
    IN  IF Fails(df) \/ NameRows(df, name) = {}
          THEN subject \notin DOMAIN Data[name]
          ELSE /\ subject \in DOMAIN Data[name]
               /\ RecordIds(Data[name][subject]) = MissedIds(df, FirstNameRow(df, name))
               /\ Len(Data[name][subject]) = Cardinality(MissedIds(df, FirstNameRow(df, name)))

----------------------------------------------------------------------------
(* The claims.                                                             *)

\* C1: when the opened workbook lacks required sheets, the function returns no
\* data and the "missing sheets" error listing exactly the required sheets that
\* are absent (each once, no present sheet, no other sheet), and no sheet has
\* been read and no student or record extracted.
C1_MissingSheetsReported ==
    (pc = "done" /\ uploaded_file.valid /\ ~(Subjects \subseteq uploaded_file.sheet_names))
    => /\ result.data_none
       /\ result.error.kind = "missing"
       /\ Range(result.error.sheets) = Subjects \ uploaded_file.sheet_names
       /\ Len(result.error.sheets) = Cardinality(Subjects \ uploaded_file.sheet_names)
       /\ data_map = EmptyMap
       /\ student_list = <<>>
       /\ all_students_data = EmptyMap

C1_Witness ==
    /\ pc = "done"
    /\ result.error.kind = "missing"
    /\ Len(result.error.sheets) = 2
    /\ ExtraSheet \in uploaded_file.sheet_names
    /\ "GuoWen" \in uploaded_file.sheet_names

\* C2: for every answer column of the row a student's lookup matched, a record
\* with that column's question id is emitted if and only if the cell is present,
\* not blank after trimming and not "-" after trimming.
C2_RecordIffMissed ==
    Succeeded =>
        \A name \in DOMAIN Data : \A subject \in DOMAIN Data[name] :
            LET df == data_map[subject]
                r == FirstNameRow(df, name)
            IN  \A c \in AnswerColumns(df) :
                    (df[1][c] \in RecordIds(Data[name][subject])) <=> MissedMarker(df[r][c])

C2_Witness ==
    /\ Succeeded
    /\ \E name \in DOMAIN Data :
          LET df == data_map["GuoWen"]
              r == FirstNameRow(df, name)
          IN  /\ NCols(df) >= 4
              /\ df[r][3] = <<" ", "-", " ">>
              /\ df[r][4] = <<"x">>
              /\ RecordIds(Data[name]["GuoWen"]) = {df[1][4]}

\* C3: when some sheet makes its pairs raise, the function still returns data
\* for the whole roster, the failing subject is absent from every student's
\* mapping, a diagnostic is printed, and every other pair has the entry its own
\* grid determines.
C3_FailureIsolated ==
    (pc = "done" /\ data_map # EmptyMap /\ ~Fails(data_map["GuoWen"])
        /\ \E subject \in Subjects : Fails(data_map[subject]))
    => /\ Succeeded
       /\ DOMAIN Data = RosterNames
       /\ \A name \in DOMAIN Data : \A subject \in Subjects :
             /\ Fails(data_map[subject]) => subject \notin DOMAIN Data[name]
             /\ PairAsExpected(name, subject)
       /\ \A name \in RosterNames : \A subject \in Subjects :
             Fails(data_map[subject]) <=> (<<name, subject>> \in Range(printed))

C3_Witness ==
    /\ Succeeded
    /\ Cardinality(DOMAIN Data) >= 2
    /\ Fails(data_map["ShuXue"])
    /\ printed # <<>>
    /\ \A name \in DOMAIN Data :
          /\ "ShuXue" \notin DOMAIN Data[name]
          /\ {"GuoWen", "YingWen", "ZiRan"} \subseteq DOMAIN Data[name]

\* C4: a subject is absent from a student's mapping exactly when its grid has no
\* body row with that name or the pair failed; it is present with the empty
\* list when the matched row has no missed answer.
C4_AbsentIffNoRow ==
    Succeeded =>
        \A name \in DOMAIN Data : \A subject \in Subjects :
            LET df == data_map[subject]
            IN  /\ (subject \notin DOMAIN Data[name])
                       <=> (Fails(df) \/ NameRows(df, name) = {})
                /\ (~Fails(df) /\ NameRows(df, name) # {}
                        /\ MissedIds(df, FirstNameRow(df, name)) = {})
                   => Data[name][subject] = <<>>

C4_Witness ==
    /\ Succeeded
    /\ \E name \in DOMAIN Data :
          /\ ~Fails(data_map["YingWen"])
          /\ "YingWen" \notin DOMAIN Data[name]
          /\ DOMAIN Data[name] = Subjects \ {"YingWen"}
          /\ AnswerColumns(data_map["GuoWen"]) # {}
          /\ Data[name]["GuoWen"] = <<>>
          /\ Data[name]["ShuXue"] = <<>>

\* C5: the roster has no duplicate names and no blank or missing names.
C5_RosterClean ==
    /\ \A i, j \in 1..Len(student_list) : student_list[i] = student_list[j] => i = j
    /\ \A i \in 1..Len(student_list) :
          student_list[i] # NaN /\ ~Blank(student_list[i])

\* C6: every record's category is the trimmed category header of its column, or
\* the sentinel when that header is missing or blank; it is never empty.
C6_CategoryOrSentinel ==
    Succeeded =>
        \A name \in DOMAIN Data : \A subject \in DOMAIN Data[name] :
            LET df == data_map[subject]
                records == Data[name][subject]
            IN  \A k \in 1..Len(records) :
                    /\ records[k].LingYu # <<>>
                    /\ \E c \in AnswerColumns(df) :
                          /\ records[k].TiHao = df[1][c]
                          /\ records[k].LingYu =
                                 IF df[2][c] = NaN \/ Blank(df[2][c])
                                   THEN QiTa ELSE Strip(df[2][c])

\* C7: a stored record list follows the answer columns in order: there is a
\* strictly increasing choice of columns whose question ids and knowledge
\* points are those of the records, so it is no longer than the columns.
C7_ColumnOrder ==
    Succeeded =>
        \A name \in DOMAIN Data : \A subject \in DOMAIN Data[name] :
            LET df == data_map[subject]
                records == Data[name][subject]
            IN  /\ Len(records) <= Cardinality(AnswerColumns(df))
                /\ \E f \in [1..Len(records) -> AnswerColumns(df)] :
                      /\ \A k \in 1..Len(records) :
                            /\ records[k].TiHao = df[1][f[k]]
                            /\ records[k].ZhiShiDian = df[3][f[k]]
                      /\ \A k, m \in 1..Len(records) : k < m => f[k] < f[m]

C7_Witness ==
    /\ Succeeded
    /\ \E name \in DOMAIN Data : \E subject \in DOMAIN Data[name] :
          LET records == Data[name][subject]
          IN  /\ Len(records) >= 2
              /\ records[1].LingYu = <<"h">>
              /\ records[2].LingYu = <<"g">>
    /\ \E name \in DOMAIN Data :
          /\ Data[name]["GuoWen"] # <<>>
          /\ Len(Data[name]["GuoWen"]) < Cardinality(AnswerColumns(data_map["GuoWen"]))

\* C8: lookup is by exact equality and resolves to the first body row with the
\* name: with several such rows the records are those of the first one alone,
\* and with none (rows that differ only by case or surrounding whitespace do
\* not count) the subject is absent.
C8_FirstExactMatch ==
    Succeeded =>
        \A name \in DOMAIN Data : \A subject \in Subjects :
            LET df == data_map[subject]
            IN  ~Fails(df) =>
                  /\ NameRows(df, name) = {} => subject \notin DOMAIN Data[name]
                  /\ Cardinality(NameRows(df, name)) >= 2 =>
                        /\ subject \in DOMAIN Data[name]
                        /\ RecordIds(Data[name][subject])
                               = MissedIds(df, FirstNameRow(df, name))

C8_Witness ==
    /\ Succeeded
    /\ LET df == data_map["YingWen"]
       IN  /\ \E name \in DOMAIN Data :
                 /\ NameRows(df, name) = {6, 7}
                 /\ MissedIds(df, 6) # MissedIds(df, 7)
           /\ \E name \in DOMAIN Data :
                 /\ "YingWen" \notin DOMAIN Data[name]
                 /\ \E r \in 6..Len(df) : Strip(df[r][2]) = name

\* C9: on success the keys of the returned index are exactly the roster names,
\* and on every return exactly one of the data and the error is null.
C9_KeysAreRoster ==
    pc = "done" =>
        /\ result.data_none # (result.error.kind = "None")
        /\ ~result.data_none =>
              /\ DOMAIN Data = RosterNames
              /\ DOMAIN Data = Range(student_list)

C9_Witness ==
    /\ Succeeded
    /\ Cardinality(DOMAIN Data) >= 2
    /\ \E name \in DOMAIN Data : DOMAIN Data[name] # Subjects

\* C10: every student of the returned index has the roster subject as a key.
C10_RosterSubjectPresent ==
    Succeeded => \A name \in DOMAIN Data : "GuoWen" \in DOMAIN Data[name]

\* Each of the other four subjects can be omitted.
C10_Witness ==
    /\ Succeeded
    /\ \E name \in DOMAIN Data : DOMAIN Data[name] = {"GuoWen"}

====
